---- MODULE Spec2Model ----
(***************************************************************************)
(* Model of evlc.py: a launcher/controller for the cvlc media player.      *)
(*                                                                         *)
(* The module-level state of the script (DEBUG_MODE, vlc_process) and the  *)
(* part of the operating system it talks to (the table of processes whose  *)
(* name matches 'vlc', the pgrep utility, os.kill, subprocess.Popen) are   *)
(* the state.  start_vlc, stop_vlc_process and get_vlc_status are the      *)
(* operations; they may be called in any order on the same module state.   *)
(* Other actors may start and end player processes at any time, also       *)
(* between the pgrep of stop_vlc_process and each of its os.kill calls.    *)
(*                                                                         *)
(* A process that has ended leaves the table at once and its pid is not    *)
(* handed out again; the pause after Popen (time.sleep) takes no step of   *)
(* its own, since the player may end at any time after the spawn anyway.   *)
(***************************************************************************)
EXTENDS Integers, Sequences, FiniteSets

\* Number of process ids the operating system hands out in one behaviour.
MaxPid == 3

Pids == 1..MaxPid

\* vlc_process = None
None == 0

Paths == {"/tmp/a.gif", "/tmp/clip.mp4"}

SupportedFormats == {"gif", "photo", "video"}

Formats == SupportedFormats \cup {"badformat"}

VARIABLES
    DEBUG_MODE,     \* the --debug flag of this invocation
    vlc_process,    \* the tracked player: None or the pid of the Popen handle
    procs,          \* pids of the live processes whose name matches 'vlc'
    foreign,        \* the live player processes this user may not signal
    next_pid,       \* the next process id the operating system hands out
    pc,             \* "idle", or "stop_loop" inside the for loop of stop
    found_pids,     \* stop_vlc_process: the pids pgrep listed
    idx,            \* stop_vlc_process: position of the for loop in found_pids
    killed_count,   \* stop_vlc_process: signals delivered so far
    kills,          \* the os.kill calls of the current operation, with results
    out,            \* what the current operation wrote, <<channel, text, n>>
    command,        \* the command line start_vlc built last
    request,        \* the arguments of the current operation
    pgrep_results,  \* how the pgrep runs of the current operation ended
    spawn_result,   \* how the Popen of the current start_vlc ended
    last            \* the step taken last

vars == <<DEBUG_MODE, vlc_process, procs, foreign, next_pid, pc, found_pids,
          idx, killed_count, kills, out, command, request, pgrep_results,
          spawn_result, last>>

----------------------------------------------------------------------------
\* Output

\* print(message): always written
print_out(o, text, n) == Append(o, <<"print", text, n>>)

\* debug_print(message): written only if DEBUG_MODE
debug_print(o, text, n) == IF DEBUG_MODE THEN Append(o, <<"debug", text, n>>) ELSE o

NoRequest == [op |-> "none", format |-> "", path |-> "", dry_run |-> FALSE]

----------------------------------------------------------------------------
\* start_vlc

vlc_options_swapped(media_format) ==
    CASE media_format = "photo" -> <<"--play-and-pause", "--no-osd">>
      [] media_format = "video" -> <<"--loop", "--no-osd">>
      [] media_format = "gif"   -> <<"--demux=avformat", "--no-osd", "--loop",
                                     "--aspect-ratio=4:3", "--crop=16:9">>
      [] OTHER                  -> <<>>

\* vlc_options, by format (the else branch returns before it is used)
vlc_options(media_format) ==
    CASE media_format = "photo" -> <<"--play-and-pause", "--no-osd">>
      [] media_format = "video" -> <<"--loop", "--no-osd">>
      [] media_format = "gif"   -> <<"--demux=avformat", "--loop", "--no-osd",
                                     "--aspect-ratio=4:3", "--crop=16:9">>
      [] OTHER                  -> <<>>

\* command = ['cvlc', media_path] + vlc_options
BuildCommand(media_path, media_format) ==
    <<"cvlc", media_path>> \o vlc_options(media_format)

ExecutesAlways(dry_run) == TRUE

\* if not dry_run:
Executes(dry_run) == ~dry_run

HeldNever(handle) == FALSE

\* if vlc_process:  (a Popen object is always true, exited or not)
Held(handle) == handle # None

\* The ways subprocess.Popen(command, ...) can end.
SpawnResults ==
    {"FileNotFoundError", "Exception"} \cup
    (IF next_pid <= MaxPid THEN {"spawned"} ELSE {})

start_vlc(media_path, media_format, dry_run) ==
    /\ pc = "idle"
    /\ last' = "start_vlc"
    /\ request' = [op |-> "start", format |-> media_format,
                   path |-> media_path, dry_run |-> dry_run]
    /\ kills' = <<>>
    /\ pgrep_results' = <<>>
    /\ UNCHANGED <<DEBUG_MODE, foreign, pc, found_pids, idx, killed_count>>
    /\ IF media_format \notin SupportedFormats
       THEN /\ out' = print_out(<<>>, "Error: Unknown format", 0)
            /\ command' = <<>>
            /\ spawn_result' = "none"
            /\ UNCHANGED <<vlc_process, procs, next_pid>>
       ELSE LET o1 == debug_print(<<>>, "--- VLC Command ---", 0)
                o2 == debug_print(o1, "Format", 0)
                o3 == debug_print(o2, "File", 0)
                o4 == debug_print(o3, "Generated Command", 0)
                o5 == debug_print(o4, "-------------------", 0)
            IN
            /\ command' = BuildCommand(media_path, media_format)
            /\ IF Executes(dry_run)
               THEN IF Held(vlc_process)
                    THEN /\ out' = print_out(o5, "VLC is already running via this script", 0)
                         /\ spawn_result' = "none"
                         /\ UNCHANGED <<vlc_process, procs, next_pid>>
                    ELSE LET o6 == debug_print(o5, "Executing command...", 0) IN
                         \E r \in SpawnResults :
                            /\ spawn_result' = r
                            /\ CASE r = "spawned" ->
                                      /\ vlc_process' = next_pid
                                      /\ procs' = procs \cup {next_pid}
                                      /\ next_pid' = next_pid + 1
                                      /\ out' = debug_print(o6, "VLC started with PID", next_pid)
                                 [] r = "FileNotFoundError" ->
                                      /\ out' = print_out(o6, "Error: cvlc command not found", 0)
                                      /\ UNCHANGED <<vlc_process, procs, next_pid>>
                                 [] OTHER ->
                                      /\ out' = print_out(o6, "An unexpected error occurred while trying to start VLC", 0)
                                      /\ UNCHANGED <<vlc_process, procs, next_pid>>
               ELSE /\ out' = debug_print(o5, "Performing a dry run (command not executed)", 0)
                    /\ spawn_result' = "none"
                    /\ UNCHANGED <<vlc_process, procs, next_pid>>

----------------------------------------------------------------------------
\* The process table and pgrep

RECURSIVE SortedSeq(_)
\* pgrep lists the matching pids in ascending order, one per line.
SortedSeq(S) ==
    IF S = {} THEN <<>>
    ELSE LET m == CHOOSE x \in S : \A y \in S : x <= y
         IN <<m>> \o SortedSeq(S \ {m})

\* The ways a run of pgrep can end:
\*   "ok"       exit status 0, at least one process matched
\*   "nomatch"  exit status 1, no process matched (CalledProcessError)
\*   "fail"     another non-zero exit status or death by a signal
\*              (CalledProcessError as well)
\*   "missing"  pgrep is not installed (FileNotFoundError)
\*   "error"    any other exception
PgrepResults ==
    {"fail", "missing", "error"} \cup
    (IF procs = {} THEN {"nomatch"} ELSE {"ok"})

----------------------------------------------------------------------------
\* stop_vlc_process

\* signal.SIGTERM
TermSignal == "SIGTERM"

\* os.kill(pid, signal.SIGTERM): delivered, or ProcessLookupError when the
\* process is gone, or PermissionError when the user may not signal it.
\* (kill(2) with a valid signal number fails in no other way, so the last
\* except branch of the loop is never taken.)
os_kill(pid) ==
    IF pid \notin procs THEN "ProcessLookupError"
    ELSE IF pid \in foreign THEN "PermissionError"
    ELSE "sent"

CountedBeforeKill(result, count) == count + 1

\* killed_count += 1, reached only when os.kill returned
Counted(result, count) == IF result = "sent" THEN count + 1 ELSE count

NextIdxAbort(i, result) == IF result = "sent" THEN i + 1 ELSE Len(found_pids) + 1

\* for pid in found_pids: every except branch falls through to the next pid
NextIdx(i, result) == i + 1

\* The messages of one pass through the body of the for loop.
KillMessages(o, pid, result) ==
    CASE result = "sent"               -> debug_print(o, "Sent SIGTERM to PID", pid)
      [] result = "ProcessLookupError" -> debug_print(o, "PID not found (already terminated or invalid)", pid)
      [] OTHER                         -> print_out(o, "Permission denied to kill PID", pid)

\* From the call to the end of the enumeration: the pgrep run, its except
\* branches, and the test of an empty listing.
stop_enumerate ==
    /\ pc = "idle"
    /\ request' = [NoRequest EXCEPT !.op = "stop"]
    /\ kills' = <<>>
    /\ killed_count' = 0
    /\ command' = <<>>
    /\ spawn_result' = "none"
    /\ UNCHANGED <<DEBUG_MODE, procs, foreign, next_pid>>
    /\ \E r \in PgrepResults :
          /\ pgrep_results' = <<r>>
          /\ CASE r = "ok" ->
                    LET found == SortedSeq(procs) IN
                    /\ found_pids' = found
                    /\ idx' = 1
                    /\ IF found = <<>>
                       THEN /\ out' = print_out(<<>>, "No 'vlc' processes are currently running.", 0)
                            /\ vlc_process' = None
                            /\ pc' = "idle"
                            /\ last' = "stop_vlc_process"
                       ELSE /\ out' = debug_print(debug_print(<<>>, "Found 'vlc' processes with PIDs", 0),
                                                  "Attempting to terminate...", 0)
                            /\ pc' = "stop_loop"
                            /\ last' = "stop_enumerate"
                            /\ UNCHANGED vlc_process
               [] r \in {"nomatch", "fail"} ->
                    /\ out' = debug_print(<<>>, "No 'vlc' processes found by 'pgrep'.", 0)
                    /\ vlc_process' = None
                    /\ found_pids' = <<>>
                    /\ idx' = 1
                    /\ last' = "stop_vlc_process"
                    /\ UNCHANGED pc
               [] r = "missing" ->
                    /\ out' = print_out(print_out(<<>>, "Error: 'pgrep' command not found.", 0),
                                    "Please ensure 'pgrep' is installed", 0)
                    /\ found_pids' = <<>>
                    /\ idx' = 1
                    /\ last' = "stop_vlc_process"
                    /\ UNCHANGED <<pc, vlc_process>>
               [] OTHER ->
                    /\ out' = print_out(<<>>, "An unexpected error occurred while trying to find processes with 'pgrep'", 0)
                    /\ found_pids' = <<>>
                    /\ idx' = 1
                    /\ last' = "stop_vlc_process"
                    /\ UNCHANGED <<pc, vlc_process>>

\* One pass through the for loop; after the last pid, the summary that
\* follows the loop.
stop_kill ==
    /\ pc = "stop_loop"
    /\ LET pid    == found_pids[idx]
           result == os_kill(pid)
           count  == Counted(result, killed_count)
           o1     == KillMessages(out, pid, result)
           ni     == NextIdx(idx, result)
       IN
       /\ kills' = Append(kills, [pid |-> pid, sig |-> TermSignal, result |-> result])
       /\ killed_count' = count
       /\ IF ni > Len(found_pids)
          THEN /\ pc' = "idle"
               /\ idx' = 1
               /\ last' = "stop_vlc_process"
               /\ IF count > 0
                  THEN /\ out' = print_out(o1, "Successfully sent termination signal to process(es)", count)
                       /\ vlc_process' = None
                  ELSE /\ out' = print_out(o1, "No 'vlc' processes were successfully terminated", 0)
                       /\ UNCHANGED vlc_process
          ELSE /\ idx' = ni
               /\ out' = o1
               /\ last' = "stop_kill"
               /\ UNCHANGED <<pc, vlc_process>>
    /\ UNCHANGED <<DEBUG_MODE, procs, foreign, next_pid, found_pids, command,
                   request, pgrep_results, spawn_result>>

----------------------------------------------------------------------------
\* get_vlc_status

TerminatedAlways(handle) == TRUE

\* vlc_process.poll() is not None
Terminated(handle) == handle \notin procs

\* The first pgrep -c run and its except branches.
StatusProbe(o, r) ==
    CASE r = "ok"                 -> debug_print(o, "At least one 'vlc' process is currently running (found by pgrep).", 0)
      [] r \in {"nomatch", "fail"} -> debug_print(o, "No 'vlc' processes are currently running (not found by pgrep).", 0)
      [] r = "missing"            -> print_out(o, "Error: 'pgrep' command not found. Cannot determine status.", 0)
      [] OTHER                    -> print_out(o, "An unexpected error occurred while checking status", 0)

\* The concise summary: the second pgrep -c run.  pgrep -c ends with exit
\* status 0 only when its count is positive; every other end is an exception.
StatusSummary(o, r) ==
    IF r = "ok"
    THEN LET pgrep_count == Cardinality(procs) IN
         IF pgrep_count > 0
         THEN print_out(o, "VLC status: process(es) running.", pgrep_count)
         ELSE print_out(o, "VLC status: No processes running.", 0)
    ELSE print_out(o, "VLC status: Unable to determine (pgrep error).", 0)

get_vlc_status ==
    /\ pc = "idle"
    /\ last' = "get_vlc_status"
    /\ request' = [NoRequest EXCEPT !.op = "status"]
    /\ kills' = <<>>
    /\ command' = <<>>
    /\ spawn_result' = "none"
    /\ UNCHANGED <<DEBUG_MODE, procs, foreign, next_pid, pc, found_pids, idx,
                   killed_count>>
    /\ \E r1 \in PgrepResults :
          LET o1 == StatusProbe(<<>>, r1)
              o2 == IF Held(vlc_process) /\ ~Terminated(vlc_process)
                    THEN debug_print(o1, "(Internally tracked VLC process is active.)", vlc_process)
                    ELSE IF Held(vlc_process) /\ Terminated(vlc_process)
                    THEN debug_print(o1, "(Internally tracked VLC process has terminated.)", vlc_process)
                    ELSE debug_print(o1, "(No VLC process is currently tracked by this script instance.)", 0)
          IN
          /\ vlc_process' = IF Held(vlc_process) /\ ~Terminated(vlc_process)
                            THEN vlc_process
                            ELSE IF Held(vlc_process) /\ Terminated(vlc_process)
                            THEN None
                            ELSE vlc_process
          /\ IF ~DEBUG_MODE
             THEN \E r2 \in PgrepResults :
                     /\ out' = StatusSummary(o2, r2)
                     /\ pgrep_results' = <<r1, r2>>
             ELSE /\ out' = o2
                  /\ pgrep_results' = <<r1>>

----------------------------------------------------------------------------
\* Other actors

\* A player process ends: it was signalled, or it quit by itself.
ExternalExit(pid) ==
    /\ pid \in procs
    /\ procs' = procs \ {pid}
    /\ foreign' = foreign \ {pid}
    /\ last' = "ExternalExit"
    /\ UNCHANGED <<DEBUG_MODE, vlc_process, next_pid, pc, found_pids, idx,
                   killed_count, kills, out, command, request, pgrep_results,
                   spawn_result>>

\* Somebody else starts a player, as this user or as another one.
ExternalSpawn(other_user) ==
    /\ next_pid <= MaxPid
    /\ procs' = procs \cup {next_pid}
    /\ foreign' = IF other_user THEN foreign \cup {next_pid} ELSE foreign
    /\ next_pid' = next_pid + 1
    /\ last' = "ExternalSpawn"
    /\ UNCHANGED <<DEBUG_MODE, vlc_process, pc, found_pids, idx, killed_count,
                   kills, out, command, request, pgrep_results, spawn_result>>

----------------------------------------------------------------------------

Init ==
    /\ DEBUG_MODE \in BOOLEAN
    /\ vlc_process = None
    /\ procs = {}
    /\ foreign = {}
    /\ next_pid = 1
    /\ pc = "idle"
    /\ found_pids = <<>>
    /\ idx = 1
    /\ killed_count = 0
    /\ kills = <<>>
    /\ out = <<>>
    /\ command = <<>>
    /\ request = NoRequest
    /\ pgrep_results = <<>>
    /\ spawn_result = "none"
    /\ last = "init"

Next ==
    \/ \E p \in Paths, f \in Formats, d \in BOOLEAN : start_vlc(p, f, d)
    \/ stop_enumerate
    \/ stop_kill
    \/ get_vlc_status
    \/ \E pid \in Pids : ExternalExit(pid)
    \/ \E o \in BOOLEAN : ExternalSpawn(o)

Spec == Init /\ [][Next]_vars

----------------------------------------------------------------------------
\* Properties

MsgIn(o, chan, text) == \E i \in 1..Len(o) : o[i][1] = chan /\ o[i][2] = text

IsPrinted(m) == m[1] = "print"

\* The messages written with print, the diagnostics of --debug left out.
Printed(o) == SelectSeq(o, IsPrinted)

\* The number of os.kill calls in k that delivered their signal.
Delivered(k) == Cardinality({i \in 1..Len(k) : k[i].result = "sent"})

AlreadyRunning == "VLC is already running via this script"

NoneRunning == "No 'vlc' processes are currently running."

\* C1, as stated: every non-dry-run Start issued while a tracked process is
\* held reports "already running", spawns nothing and leaves the handle as
\* it was.
C1_Original ==
    [][ (last' = "start_vlc" /\ ~request'.dry_run /\ vlc_process # None)
        => /\ MsgIn(out', "print", AlreadyRunning)
           /\ spawn_result' = "none"
           /\ procs' = procs /\ next_pid' = next_pid
           /\ vlc_process' = vlc_process ]_vars

\* C1, amended: a non-dry-run Start with a supported format issued while a
\* tracked process is held reports "already running", spawns no player
\* process, and leaves the handle held before the call in place.
C1_AlreadyRunning ==
    [][ (/\ last' = "start_vlc"
         /\ ~request'.dry_run
         /\ request'.format \in SupportedFormats
         /\ vlc_process # None)
        => /\ MsgIn(out', "print", AlreadyRunning)
           /\ spawn_result' = "none"
           /\ procs' = procs /\ next_pid' = next_pid
           /\ kills' = <<>>
           /\ vlc_process' = vlc_process ]_vars

\* C1: a second Start was refused while the tracked player is still held.
C1_Witness ==
    /\ last = "start_vlc"
    /\ ~request.dry_run
    /\ request.format \in SupportedFormats
    /\ vlc_process # None
    /\ spawn_result = "none"
    /\ MsgIn(out, "print", AlreadyRunning)

\* C2: Start with dryRun = true and a supported format changes neither the
\* set of player processes nor the tracked handle, starts no process and
\* sends no signal, whatever the state it is called in.
C2_DryRunNoEffect ==
    [][ (/\ last' = "start_vlc"
         /\ request'.dry_run
         /\ request'.format \in SupportedFormats)
        => /\ spawn_result' = "none"
           /\ procs' = procs /\ foreign' = foreign /\ next_pid' = next_pid
           /\ kills' = <<>>
           /\ vlc_process' = vlc_process ]_vars

\* C2: a dry run made while a player is tracked and running.
C2_Witness ==
    /\ last = "start_vlc"
    /\ request.dry_run
    /\ request.format \in SupportedFormats
    /\ vlc_process # None
    /\ vlc_process \in procs
    /\ Len(command) > 2

\* C3: a Stop that matched no player process prints "No 'vlc' processes are
\* currently running." and reports no error.
C3_NoProcessesMessage ==
    (/\ last = "stop_vlc_process"
     /\ pgrep_results[1] \in {"ok", "nomatch"}
     /\ found_pids = <<>>)
    => Printed(out) = <<<<"print", NoneRunning, 0>>>>

\* C4: when pgrep works, Status reports the number of matching processes:
\* that none is running for zero (in either wording of the script), the
\* count M for M > 0.
C4_StatusCount ==
    (/\ last = "get_vlc_status"
     /\ \A i \in 1..Len(pgrep_results) : pgrep_results[i] \in {"ok", "nomatch"})
    => IF procs = {}
       THEN \/ MsgIn(out, "print", "VLC status: No processes running.")
            \/ MsgIn(out, "debug", "No 'vlc' processes are currently running (not found by pgrep).")
       ELSE \E i \in 1..Len(out) :
               out[i] = <<"print", "VLC status: process(es) running.", Cardinality(procs)>>

\* What Status prints, as a function of the ends of its pgrep runs and of
\* the process table alone.
StatusPrinted(results, table) ==
    (IF results[1] = "missing"
     THEN <<<<"print", "Error: 'pgrep' command not found. Cannot determine status.", 0>>>>
     ELSE IF results[1] = "error"
     THEN <<<<"print", "An unexpected error occurred while checking status", 0>>>>
     ELSE <<>>)
    \o
    (IF Len(results) < 2 THEN <<>>
     ELSE IF results[2] = "ok"
     THEN <<<<"print", "VLC status: process(es) running.", Cardinality(table)>>>>
     ELSE <<<<"print", "VLC status: Unable to determine (pgrep error).", 0>>>>)

\* C5, as stated: Status sends no signal, changes neither the set of player
\* processes nor the tracked handle, and what it prints is decided by the
\* process table and pgrep alone.
C5_Original ==
    [][ last' = "get_vlc_status"
        => /\ kills' = <<>>
           /\ procs' = procs /\ foreign' = foreign /\ next_pid' = next_pid
           /\ Printed(out') = StatusPrinted(pgrep_results', procs)
           /\ vlc_process' = vlc_process ]_vars

\* C5, amended: Status sends no signal and does not change the set of player
\* processes; it leaves the tracked handle alone unless the tracked process
\* has terminated, and then it clears the handle; what it prints is decided
\* by the process table and pgrep alone, not by the handle.
C5_StatusQuery ==
    [][ last' = "get_vlc_status"
        => /\ kills' = <<>>
           /\ procs' = procs /\ foreign' = foreign /\ next_pid' = next_pid
           /\ Printed(out') = StatusPrinted(pgrep_results', procs)
           /\ \/ vlc_process' = vlc_process
              \/ /\ vlc_process' = None
                 /\ vlc_process \notin procs ]_vars

\* C5: a Status that found the tracked process terminated and cleared the
\* handle, while another player runs.
C5_Witness ==
    /\ last = "get_vlc_status"
    /\ MsgIn(out, "debug", "(Internally tracked VLC process has terminated.)")
    /\ vlc_process = None
    /\ procs # {}
    /\ pgrep_results = <<"ok">>

\* C6: when pgrep is missing or fails, Stop reports an error, sends no
\* signal and leaves the tracked handle unchanged.
C6_EnumerationFailureAborts ==
    [][ (/\ last' = "stop_vlc_process"
         /\ pgrep_results'[1] \in {"fail", "missing", "error"})
        => /\ Printed(out') # <<>>
           /\ kills' = <<>>
           /\ vlc_process' = vlc_process ]_vars

\* C7: Stop sends SIGTERM, and nothing else, once to each matched pid in
\* turn and to no other process; the count it keeps and reports is the
\* number of signals delivered, which is N when all N matched processes
\* still exist and may be signalled.
C7_SignalsAndCount ==
    request.op = "stop"
    => /\ Len(kills) <= Len(found_pids)
       /\ \A i \in 1..Len(kills) :
             /\ kills[i].pid = found_pids[i]
             /\ kills[i].sig = "SIGTERM"
       /\ \A i, j \in 1..Len(found_pids) : found_pids[i] = found_pids[j] => i = j
       /\ killed_count = Delivered(kills)
       /\ (pc = "idle" /\ found_pids # <<>>)
          => /\ Len(kills) = Len(found_pids)
             /\ Delivered(kills) > 0
                => out[Len(out)] = <<"print",
                                     "Successfully sent termination signal to process(es)",
                                     Delivered(kills)>>
             /\ (\A i \in 1..Len(kills) : kills[i].result = "sent")
                => out[Len(out)][3] = Len(found_pids)

\* C7: a Stop that matched two or more processes and signalled them all.
C7_Witness ==
    /\ last = "stop_vlc_process"
    /\ Len(found_pids) >= 2
    /\ Len(kills) = Len(found_pids)
    /\ \A i \in 1..Len(kills) : kills[i].result = "sent"

\* The messages print writes for the passes of the for loop in k.
RECURSIVE DeniedMessages(_)
DeniedMessages(k) ==
    IF k = <<>> THEN <<>>
    ELSE (IF Head(k).result = "PermissionError"
          THEN <<<<"print", "Permission denied to kill PID", Head(k).pid>>>>
          ELSE <<>>) \o DeniedMessages(Tail(k))

\* C8: a matched process that vanished before its signal, or whose signal
\* was denied, does not end the call: os.kill is still tried on every
\* matched pid, the vanished one leaves no printed message, the denied one
\* leaves one message naming it, and the call ends with its summary.
C8_FailuresDoNotAbort ==
    (request.op = "stop" /\ pc = "idle" /\ found_pids # <<>>)
    => /\ Len(kills) = Len(found_pids)
       /\ \A i \in 1..Len(found_pids) : kills[i].pid = found_pids[i]
       /\ Len(Printed(out)) >= 1
       /\ SubSeq(Printed(out), 1, Len(Printed(out)) - 1) = DeniedMessages(kills)
       /\ Printed(out)[Len(Printed(out))] =
             IF Delivered(kills) > 0
             THEN <<"print", "Successfully sent termination signal to process(es)",
                    Delivered(kills)>>
             ELSE <<"print", "No 'vlc' processes were successfully terminated", 0>>

\* C8: a Stop whose first matched process had vanished, whose second was
\* denied, and whose third was signalled all the same.
C8_Witness ==
    /\ last = "stop_vlc_process"
    /\ Len(kills) = 3
    /\ kills[1].result = "ProcessLookupError"
    /\ kills[2].result = "PermissionError"
    /\ kills[3].result = "sent"

\* C9: the tracked handle goes from absent to running only on a Start that
\* spawned the player, from running to absent only when the tracked process
\* has terminated or Stop signalled it, and never from one process to
\* another.
C9_HandleTransitions ==
    [][ /\ (vlc_process = None /\ vlc_process' # None)
           => /\ last' = "start_vlc"
              /\ spawn_result' = "spawned"
              /\ ~request'.dry_run
              /\ request'.format \in SupportedFormats
              /\ vlc_process' \in procs' \ procs
        /\ (vlc_process # None /\ vlc_process' = None)
           => \/ vlc_process \notin procs
              \/ /\ last' = "stop_vlc_process"
                 /\ \E i \in 1..Len(kills') :
                       /\ kills'[i].pid = vlc_process
                       /\ kills'[i].result = "sent"
        /\ (vlc_process # None /\ vlc_process' # None)
           => vlc_process' = vlc_process ]_vars

\* C10: the command line Start builds is cvlc, the media path, and the
\* fixed flags of the format in their order, whatever the path and dryRun.
C10_CommandLine ==
    (request.op = "start" /\ request.format \in SupportedFormats)
    => /\ request.format = "photo"
          => command = <<"cvlc", request.path, "--play-and-pause", "--no-osd">>
       /\ request.format = "video"
          => command = <<"cvlc", request.path, "--loop", "--no-osd">>
       /\ request.format = "gif"
          => command = <<"cvlc", request.path, "--demux=avformat", "--loop",
                         "--no-osd", "--aspect-ratio=4:3", "--crop=16:9">>

\* C10: a dry run of a gif.
C10_Witness ==
    /\ last = "start_vlc"
    /\ request.format = "gif"
    /\ request.dry_run
    /\ request.path = "/tmp/a.gif"
    /\ Len(command) = 7

====
